---- MODULE Spec2Model ----
(***************************************************************************)
(* The multi-database connection registry of src/server.py:                *)
(* DatabaseContext (pools, default_database, config, the persisted config  *)
(* file) and the tool handlers that read and mutate it (add_database,      *)
(* remove_database, get_pool).                                             *)
(*                                                                         *)
(* The handlers are asyncio coroutines: a handler runs without             *)
(* interruption from one suspension point to the next, so every action     *)
(* below is one such segment.  The suspension points are                   *)
(* `await asyncpg.create_pool(...)` and `await pool.close()`;              *)
(* `await db_context._save_config()` does blocking file I/O only and never *)
(* yields to the event loop, so the save belongs to the segment that       *)
(* calls it.                                                               *)
(*                                                                         *)
(* A Python str is a sequence of characters, each character a one-element  *)
(* name ("a", "_", "U+00E9" for a non-ASCII letter).  A Python dict is a   *)
(* sequence of <<key, value>> pairs in insertion order.                    *)
(***************************************************************************)
EXTENDS Integers, Sequences, FiniteSets, Bags, TLC

VARIABLES
    phase,             \* lifespan: "init", "connecting", "running", "stopping", "stopped"
    cursor,            \* position of the loop of connect() / disconnect()
    file,              \* the persisted config file (POSTGRES_CONFIG_FILE)
    config,            \* DatabaseContext.config
    pools,             \* DatabaseContext.pools: dict id -> pool handle
    default_database,  \* DatabaseContext.default_database
    poolState,         \* every asyncpg.Pool created so far: "open" / "closing" / "closed"
    calls,             \* the bag of tool calls suspended at an await
    returned           \* the value the step just taken returned to its caller, if any

vars == <<phase, cursor, file, config, pools, default_database, poolState, calls, returned>>

----------------------------------------------------------------------------
(* Bounds of the model *)

\* tool calls suspended at the same time
NumCalls == 2
\* asyncpg pools created over one run (startup and add together)
MaxPools == 3

----------------------------------------------------------------------------
(* Python values *)

\* Python's None where a str is expected: no str, since every element of a
\* str is a single character
None == <<"None">>
\* Python's None where an asyncpg.Pool is expected (pool handles are 1, 2, ...)
NoPool == 0
\* config.get("project") of a spec without project info
NoProject == << >>

\* bool(s) of an Optional[str]
Truthy(s) == s # None /\ s # << >>

AsciiAlnumChars == {"a", "b", "c", "d", "e", "f", "l", "t", "u", "x", "1"}
\* letters outside ASCII, for which str.isalnum() is true as well
UnicodeAlnumChars == {"U+00E9"}
IsAlnumChar(c) == c \in AsciiAlnumChars \cup UnicodeAlnumChars

\* s.replace(ch, "")
Replace(s, ch) == SelectSeq(s, LAMBDA c : c # ch)
\* s.isalnum(): at least one character, and all of them alphanumeric
IsAlnum(s) == Len(s) > 0 /\ \A i \in 1..Len(s) : IsAlnumChar(s[i])

\* s.split(",")
RECURSIVE Split(_, _)
Split(s, acc) ==
    IF s = << >> THEN <<acc>>
    ELSE IF Head(s) = "," THEN <<acc>> \o Split(Tail(s), << >>)
    ELSE Split(Tail(s), Append(acc, Head(s)))

(* dict *)
Keys(d) == [i \in 1..Len(d) |-> d[i][1]]
KeySet(d) == {d[i][1] : i \in 1..Len(d)}
Has(d, k) == k \in KeySet(d)
Get(d, k) == d[CHOOSE i \in 1..Len(d) : d[i][1] = k][2]
Put(d, k, v) ==
    IF Has(d, k) THEN [i \in 1..Len(d) |-> IF d[i][1] = k THEN <<k, v>> ELSE d[i]]
    ELSE Append(d, <<k, v>>)
Del_Keep(d, k) == d
Del(d, k) == SelectSeq(d, LAMBDA e : e[1] # k)

----------------------------------------------------------------------------
(* Config store *)

\* the five connection settings of one database
Conn(h, pt, db, u, pw) == [host |-> h, port |-> pt, database |-> db, user |-> u, password |-> pw]
\* the settings the environment gives (POSTGRES_HOST, ...)
EnvConn == Conn("h", 5432, "d", "u", "p")

DbSpec(c, proj) ==
    [host |-> c.host, port |-> c.port, database |-> c.database, user |-> c.user,
     password |-> c.password, project |-> proj]

Cfg(dbs, dflt) == [databases |-> dbs, default_database |-> dflt]
\* a file that holds a parsed config, one that cannot be read or parsed, no file
FileOf(cfg) == [state |-> "ok", content |-> cfg]
FileUnreadable == [state |-> "unreadable", content |-> Cfg(<< >>, None)]
FileAbsent == [state |-> "absent", content |-> Cfg(<< >>, None)]

DefaultName == <<"d", "e", "f", "a", "u", "l", "t">>
\* the fallback of _load_config: one entry "default" from the environment
EnvConfig == Cfg(<< <<DefaultName, [host |-> EnvConn.host, port |-> EnvConn.port,
                                    database |-> EnvConn.database, user |-> EnvConn.user,
                                    password |-> EnvConn.password]>> >>, DefaultName)

LoadConfig_NoFallbackOnError(f) ==
    IF f.state = "absent" THEN EnvConfig ELSE f.content

\* _load_config: the file's content if it exists and parses, else the fallback
LoadConfig(f) == IF f.state = "ok" THEN f.content ELSE EnvConfig

\* _save_config: json.dump of the whole config into the file opened for
\* writing.  "saved": the file holds the config.  "failed": open() raised,
\* the file is as before.  "truncated": open(config_file, 'w') created or
\* emptied the file and the write (or the close) raised, the file is left
\* without a config that parses.  The two failures are raised again.
SaveOutcomes == {"saved", "failed", "truncated"}
SaveConfig_NeverWrites(f, cfg, outcome) == f
SaveConfig(f, cfg, outcome) ==
    IF outcome = "saved" THEN FileOf(cfg)
    ELSE IF outcome = "truncated" THEN FileUnreadable
    ELSE f

----------------------------------------------------------------------------
(* Pool registry *)

\* get_pool
GetPoolOf(pls, dflt, database_id) ==
    LET id == IF database_id = None THEN dflt ELSE database_id
    IN  IF id = None THEN NoPool
        ELSE IF Has(pls, id) THEN Get(pls, id) ELSE NoPool

\* get_available_databases
AvailableDatabases(pls) == Keys(pls)

\* the "Set default database" block of connect()
StartupDefault(cfg, pls) ==
    LET stated == cfg.default_database
    IN  IF Truthy(stated) /\ ~Has(pls, stated) /\ Len(pls) > 0
        THEN Keys(pls)[1]
        ELSE stated

\* the id check of add_database
IsValidId(database_id) == IsAlnum(Replace(Replace(database_id, "_"), "-"))

\* "project": {...} if project_name else None
ProjectOf(project_name, project_description, project_tags) ==
    IF Truthy(project_name)
    THEN << [name |-> project_name, description |-> project_description,
             tags |-> IF Truthy(project_tags) THEN Split(project_tags, << >>) ELSE << >>] >>
    ELSE NoProject

\* add_database: "Set as default if requested or if no default exists"
AddSetsDefault(set_as_default, dflt) == set_as_default \/ dflt = None

IsLastDatabase_NoCheck(pls) == FALSE
\* remove_database: "Don't allow removing the last database"
IsLastDatabase(pls) == Len(pls) = 1

DefaultAfterRemove_Unset(plsLeft) == None
\* remove_database: "Update default if necessary", on the pools left
DefaultAfterRemove(plsLeft) == IF Len(plsLeft) > 0 THEN Keys(plsLeft)[1] ELSE None

----------------------------------------------------------------------------
(* Results of the tool calls *)

\* a call suspended at an await, with the locals it resumes with
AddCallOf(database_id, conn, set_as_default, project, project_tags) ==
    [pc |-> "add_create_pool", database_id |-> database_id, conn |-> conn,
     set_as_default |-> set_as_default, project |-> project,
     project_tags |-> project_tags, pool |-> NoPool]
RemoveCallOf(database_id, pool) ==
    [pc |-> "remove_close", database_id |-> database_id, conn |-> EnvConn,
     set_as_default |-> FALSE, project |-> NoProject, pool |-> pool]

Suspend(c) == calls (+) SetToBag({c})
Resume(c) == calls (-) SetToBag({c})

\* the dict a handler returns (get_pool: the pool it returns), with the
\* operation and the database_id of the call.  error names the message of a
\* failure by its kind, cause the exception str(e) of an except branch.
\* was_default is no part of the dict: it notes whether a remove that
\* returned success found its id to be the default.
Result(op, id, ok, err, cause, isDefault, newDefault, pool, wasDefault) ==
    [op |-> op, id |-> id, success |-> ok, error |-> err, cause |-> cause,
     is_default |-> isDefault, new_default |-> newDefault, pool |-> pool,
     was_default |-> wasDefault]

Failure(op, id, err, cause) == Result(op, id, FALSE, err, cause, FALSE, None, NoPool, FALSE)

\* the step returned nothing
NoResult == Result("none", None, FALSE, "", "", FALSE, None, NoPool, FALSE)

AddReturn_Swallowed(id, dflt, outcome) ==
    Result("add", id, TRUE, "", "", id = dflt, None, NoPool, FALSE)

\* add_database after create_pool returned: the return after
\* `await db_context._save_config()`, or the except branch when it raised
AddReturn(id, dflt, outcome) ==
    IF outcome = "saved"
    THEN Result("add", id, TRUE, "", "", id = dflt, None, NoPool, FALSE)
    ELSE Failure("add", id, "FailedToAdd", "OSError")

\* remove_database after the deletion: the same
RemoveReturn(id, dflt, wasDefault, outcome) ==
    IF outcome = "saved"
    THEN Result("remove", id, TRUE, "", "", FALSE, dflt, NoPool, wasDefault)
    ELSE Failure("remove", id, "FailedToRemove", "OSError")

----------------------------------------------------------------------------
(* Inputs *)

IdA == <<"a">>
IdB == <<"b">>

\* specs a config file may hold
FileSpec == [host |-> "h", port |-> 5432, database |-> "d", user |-> "u", password |-> "p"]
InitialFiles ==
    { FileAbsent, FileUnreadable,
      FileOf(Cfg(<< >>, None)),
      FileOf(Cfg(<< <<IdA, FileSpec>>, <<IdB, FileSpec>> >>, IdA)),
      FileOf(Cfg(<< <<IdA, FileSpec>>, <<IdB, FileSpec>> >>, None)) }

\* database_id arguments of add_database: two valid ids and one with "!"
AddIds == {IdA, IdB, <<"a", "!">>}
\* database_id arguments of remove_database
RemoveIds == {IdA, IdB, DefaultName}
\* database_id arguments of get_pool: omitted, an id, the empty string
GetIds == {None, IdA, << >>}

----------------------------------------------------------------------------
(* Lifespan: connect() *)

Init ==
    /\ phase = "init"
    /\ cursor = 0
    /\ file \in InitialFiles
    /\ config = Cfg(<< >>, None)
    /\ pools = << >>
    /\ default_database = None
    /\ poolState = << >>
    /\ calls = EmptyBag
    /\ returned = NoResult

\* connect() up to its first create_pool: the config is loaded; with no
\* database configured the loop is empty and the default is set at once
ConnectStart ==
    /\ phase = "init"
    /\ LET cfg == LoadConfig(file)
       IN  /\ config' = cfg
           /\ IF Len(cfg.databases) = 0
              THEN /\ phase' = "running"
                   /\ cursor' = 0
                   /\ default_database' = StartupDefault(cfg, pools)
              ELSE /\ phase' = "connecting"
                   /\ cursor' = 1
                   /\ UNCHANGED default_database
    /\ UNCHANGED <<file, pools, poolState, calls, returned>>

ConnectNext_Aborts(ok) ==
    /\ phase = "connecting"
    /\ ok => Len(poolState) < MaxPools
    /\ LET db_id == config.databases[cursor][1]
           pls == IF ok THEN Put(pools, db_id, Len(poolState) + 1) ELSE pools
       IN  /\ pools' = pls
           /\ poolState' = IF ok THEN Append(poolState, "open") ELSE poolState
           /\ IF cursor = Len(config.databases) \/ ~ok
              THEN /\ phase' = "running"
                   /\ cursor' = 0
                   /\ default_database' = StartupDefault(config, pls)
              ELSE /\ cursor' = cursor + 1
                   /\ UNCHANGED <<phase, default_database>>
    /\ UNCHANGED <<file, config, calls, returned>>

\* one create_pool of the loop of connect() returns (ok) or raises; after the
\* last one the default is set
ConnectNext(ok) ==
    /\ phase = "connecting"
    /\ ok => Len(poolState) < MaxPools
    /\ LET db_id == config.databases[cursor][1]
           pls == IF ok THEN Put(pools, db_id, Len(poolState) + 1) ELSE pools
       IN  /\ pools' = pls
           /\ poolState' = IF ok THEN Append(poolState, "open") ELSE poolState
           /\ IF cursor = Len(config.databases)
              THEN /\ phase' = "running"
                   /\ cursor' = 0
                   /\ default_database' = StartupDefault(config, pls)
              ELSE /\ cursor' = cursor + 1
                   /\ UNCHANGED <<phase, default_database>>
    /\ UNCHANGED <<file, config, calls, returned>>

----------------------------------------------------------------------------
(* get_pool *)

GetPool(database_id) ==
    /\ phase = "running"
    /\ returned' = Result("get_pool", database_id, TRUE, "", "", FALSE, None,
                          GetPoolOf(pools, default_database, database_id), FALSE)
    /\ UNCHANGED <<phase, cursor, file, config, pools, default_database, poolState, calls>>

----------------------------------------------------------------------------
(* add_database *)

AddCall_NoDuplicateCheck(database_id, conn, set_as_default, project_name, project_description, project_tags) ==
    /\ phase = "running"
    /\ IF ~IsValidId(database_id)
       THEN /\ returned' = Failure("add", database_id, "InvalidId", "")
            /\ UNCHANGED calls
       ELSE /\ BagCardinality(calls) < NumCalls
            /\ calls' = Suspend(AddCallOf(database_id, conn, set_as_default,
                           ProjectOf(project_name, project_description, project_tags),
                           project_tags))
            /\ returned' = NoResult
    /\ UNCHANGED <<phase, cursor, file, config, pools, default_database, poolState>>

\* from the call to `await asyncpg.create_pool(...)`
AddCall(database_id, conn, set_as_default, project_name, project_description, project_tags) ==
    /\ phase = "running"
    /\ IF Has(pools, database_id)
       THEN /\ returned' = Failure("add", database_id, "DuplicateId", "")
            /\ UNCHANGED calls
       ELSE IF ~IsValidId(database_id)
       THEN /\ returned' = Failure("add", database_id, "InvalidId", "")
            /\ UNCHANGED calls
       ELSE /\ BagCardinality(calls) < NumCalls
            /\ calls' = Suspend(AddCallOf(database_id, conn, set_as_default,
                           ProjectOf(project_name, project_description, project_tags),
                           project_tags))
            /\ returned' = NoResult
    /\ UNCHANGED <<phase, cursor, file, config, pools, default_database, poolState>>

AddConnectFailed_KeepsSpec(c) ==
    /\ phase = "running"
    /\ BagIn(c, calls)
    /\ c.pc = "add_create_pool"
    /\ returned' = Failure("add", c.database_id, "FailedToAdd", "ConnectError")
    /\ calls' = Resume(c)
    /\ config' = [config EXCEPT !.databases = Put(@, c.database_id, DbSpec(c.conn, c.project))]
    /\ UNCHANGED <<phase, cursor, file, pools, default_database, poolState>>

\* create_pool raised: the except branch
AddConnectFailed(c) ==
    /\ phase = "running"
    /\ BagIn(c, calls)
    /\ c.pc = "add_create_pool"
    /\ returned' = Failure("add", c.database_id, "FailedToAdd", "ConnectError")
    /\ calls' = Resume(c)
    /\ UNCHANGED <<phase, cursor, file, config, pools, default_database, poolState>>

AddConnected_NoSpec(c, outcome) ==
    /\ phase = "running"
    /\ BagIn(c, calls)
    /\ c.pc = "add_create_pool"
    /\ Len(poolState) < MaxPools
    /\ LET id == c.database_id
           pool == Len(poolState) + 1
           setDefault == AddSetsDefault(c.set_as_default, default_database)
           dflt == IF setDefault THEN id ELSE default_database
           cfg == Cfg(config.databases,
                      IF setDefault THEN id ELSE config.default_database)
       IN  /\ poolState' = Append(poolState, "open")
           /\ pools' = Put(pools, id, pool)
           /\ config' = cfg
           /\ default_database' = dflt
           /\ file' = SaveConfig(file, cfg, outcome)
           /\ returned' = AddReturn(id, dflt, outcome)
    /\ calls' = Resume(c)
    /\ UNCHANGED <<phase, cursor>>

\* create_pool returned: from "Add to pools" to the return
AddConnected(c, outcome) ==
    /\ phase = "running"
    /\ BagIn(c, calls)
    /\ c.pc = "add_create_pool"
    /\ Len(poolState) < MaxPools
    /\ LET id == c.database_id
           pool == Len(poolState) + 1
           setDefault == AddSetsDefault(c.set_as_default, default_database)
           dflt == IF setDefault THEN id ELSE default_database
           cfg == Cfg(Put(config.databases, id, DbSpec(c.conn, c.project)),
                      IF setDefault THEN id ELSE config.default_database)
       IN  /\ poolState' = Append(poolState, "open")
           /\ pools' = Put(pools, id, pool)
           /\ config' = cfg
           /\ default_database' = dflt
           /\ file' = SaveConfig(file, cfg, outcome)
           /\ returned' = AddReturn(id, dflt, outcome)
    /\ calls' = Resume(c)
    /\ UNCHANGED <<phase, cursor>>

----------------------------------------------------------------------------
(* remove_database *)

\* from the call to `await pool.close()`
RemoveCall(database_id) ==
    /\ phase = "running"
    /\ IF ~Has(pools, database_id)
       THEN /\ returned' = Failure("remove", database_id, "NotFound", "")
            /\ UNCHANGED <<calls, poolState>>
       ELSE IF IsLastDatabase(pools)
       THEN /\ returned' = Failure("remove", database_id, "LastConnectionProtected", "")
            /\ UNCHANGED <<calls, poolState>>
       ELSE LET pool == Get(pools, database_id)
            IN  /\ BagCardinality(calls) < NumCalls
                /\ calls' = Suspend(RemoveCallOf(database_id, pool))
                /\ poolState' = [poolState EXCEPT ![pool] = IF @ = "open" THEN "closing" ELSE @]
                /\ returned' = NoResult
    /\ UNCHANGED <<phase, cursor, file, config, pools, default_database>>

\* pool.close() returned: from "Remove from pools and config" to the return
RemoveClosed(c, outcome) ==
    /\ phase = "running"
    /\ BagIn(c, calls)
    /\ c.pc = "remove_close"
    /\ LET id == c.database_id
           plsLeft == Del(pools, id)
           isDefault == default_database = id
           dflt == IF isDefault THEN DefaultAfterRemove(plsLeft) ELSE default_database
           cfg == Cfg(Del(config.databases, id),
                      IF isDefault THEN dflt ELSE config.default_database)
       IN  /\ poolState' = [poolState EXCEPT ![c.pool] = "closed"]
           /\ IF ~Has(pools, id)
              THEN \* del db_context.pools[database_id] raises KeyError
                   /\ returned' = Failure("remove", id, "FailedToRemove", "KeyError")
                   /\ UNCHANGED <<file, config, pools, default_database>>
              ELSE /\ pools' = plsLeft
                   /\ config' = cfg
                   /\ default_database' = dflt
                   /\ file' = SaveConfig(file, cfg, outcome)
                   /\ returned' = RemoveReturn(id, dflt, isDefault, outcome)
    /\ calls' = Resume(c)
    /\ UNCHANGED <<phase, cursor>>

\* pool.close() raised (the pool is terminated): the except branch, with
\* nothing removed
RemoveCloseFailed(c) ==
    /\ phase = "running"
    /\ BagIn(c, calls)
    /\ c.pc = "remove_close"
    /\ poolState' = [poolState EXCEPT ![c.pool] = "closed"]
    /\ returned' = Failure("remove", c.database_id, "FailedToRemove", "CloseError")
    /\ calls' = Resume(c)
    /\ UNCHANGED <<phase, cursor, file, config, pools, default_database>>

----------------------------------------------------------------------------
(* Lifespan: disconnect() *)

\* pool.close() is called: a pool that is open starts closing, the close of
\* a pool that is closing or closed finds it as it is
CloseCalled(ps, pool) == [ps EXCEPT ![pool] = IF @ = "open" THEN "closing" ELSE @]

\* disconnect() from its call to its first await: with no pool in the
\* mapping it returns (phase done), else it is suspended in pool.close() of
\* the first pool (phase during); cursor is the position of the pool the
\* loop takes next
DisconnectCalled(during, done) ==
    /\ IF Len(pools) = 0
       THEN /\ phase' = done
            /\ cursor' = 0
            /\ UNCHANGED poolState
       ELSE /\ phase' = during
            /\ cursor' = 2
            /\ poolState' = CloseCalled(poolState, pools[1][2])
    /\ returned' = NoResult
    /\ UNCHANGED <<file, config, pools, default_database, calls>>

\* the pool.close() disconnect() is suspended in returned or raised.  When
\* it returned, the loop calls pool.close() of the next pool, or
\* disconnect() returns after the last.  When it raised (the pool is
\* terminated) the loop ends: disconnect() has no try/except, the exception
\* leaves it and the pools after it in the mapping are left as they are.
DisconnectResumed(during, done, ok) ==
    /\ LET closed == [poolState EXCEPT ![pools[cursor - 1][2]] = "closed"]
       IN  IF ok /\ cursor <= Len(pools)
           THEN /\ phase' = during
                /\ cursor' = cursor + 1
                /\ poolState' = CloseCalled(closed, pools[cursor][2])
           ELSE /\ phase' = done
                /\ cursor' = 0
                /\ poolState' = closed
    /\ returned' = NoResult
    /\ UNCHANGED <<file, config, pools, default_database, calls>>

\* app_lifespan leaves its `yield` once the server has stopped serving, its
\* handlers done (the framework runs them inside the lifespan; server.py
\* has no guard of its own), and calls disconnect() in its finally
Disconnect ==
    /\ phase = "running"
    /\ calls = EmptyBag
    /\ DisconnectCalled("stopping", "stopped")

\* pool.close() returned or raised inside that disconnect(); an exception
\* leaves app_lifespan
DisconnectClosed(ok) ==
    /\ phase = "stopping"
    /\ DisconnectResumed("stopping", "stopped", ok)

----------------------------------------------------------------------------
(* The registry under concurrent tool calls *)

Next ==
    \/ ConnectStart
    \/ \E ok \in BOOLEAN : ConnectNext(ok)
    \/ \E id \in GetIds : GetPool(id)
    \/ \E id \in AddIds, sd \in BOOLEAN : AddCall(id, EnvConn, sd, None, None, None)
    \/ \E c \in BagToSet(calls) : AddConnectFailed(c)
    \/ \E c \in BagToSet(calls), o \in SaveOutcomes : AddConnected(c, o)
    \/ \E id \in RemoveIds : RemoveCall(id)
    \/ \E c \in BagToSet(calls), o \in SaveOutcomes : RemoveClosed(c, o)
    \/ \E c \in BagToSet(calls) : RemoveCloseFailed(c)
    \/ Disconnect
    \/ \E ok \in BOOLEAN : DisconnectClosed(ok)

Spec == Init /\ [][Next]_vars

----------------------------------------------------------------------------
(* The id check of add_database, on ids of every shape *)

\* database_id arguments: letters and digits, underscores and hyphens only,
\* the empty id, ids with "!" or a blank, an id that is a non-ASCII letter
IdInputs ==
    { IdA, <<"a", "_", "1">>, <<"_">>, <<"-">>, <<"-", "_">>, << >>,
      <<"a", "!">>, <<"a", " ">>, <<"!">>, <<"U+00E9">> }

InitIds == Init /\ file = FileAbsent

NextIds ==
    \/ ConnectStart
    \/ \E ok \in BOOLEAN : ConnectNext(ok)
    \/ \E id \in IdInputs, sd \in BOOLEAN : AddCall(id, EnvConn, sd, None, None, None)
    \/ \E c \in BagToSet(calls) : AddConnectFailed(c)
    \/ \E c \in BagToSet(calls), o \in SaveOutcomes : AddConnected(c, o)

SpecIds == InitIds /\ [][NextIds]_vars

----------------------------------------------------------------------------
(* What a step did, read off the state before and after it *)

\* the ids a call can name
AllIds == AddIds \cup RemoveIds \cup (GetIds \ {None})

\* id names an open pool of the live-pool mapping
LiveIn(pls, st, id) == Has(pls, id) /\ st[Get(pls, id)] = "open"

\* a call op(id) was made in this step: it returned at once, or it is now
\* suspended at its await (pc)
Issued(op, pc, id) ==
    \/ returned'.op = op /\ returned'.id = id /\ calls' = calls
    \/ \E c \in BagToSet(calls') :
          c.pc = pc /\ c.database_id = id /\ calls' = Suspend(c)

AddIssued(id) == Issued("add", "add_create_pool", id)
RemoveIssued(id) == Issued("remove", "remove_close", id)

\* a suspended call c resumed in this step and returned
Resumed(c) == BagIn(c, calls) /\ calls' = Resume(c)

\* some step of a call suspended at pc for id: its suspension or its resumption
StepOf(pc, id) ==
    \E c \in BagToSet(calls) \cup BagToSet(calls') :
        c.pc = pc /\ c.database_id = id /\ CopiesIn(c, calls) # CopiesIn(c, calls')

RegistryUnchanged == UNCHANGED <<pools, config, default_database, file, poolState>>

----------------------------------------------------------------------------
(* Claims *)

\* C1: once connect() has completed, default_database is unset or a key of
\* pools.  Stated as the claim states it; connect() keeps a stated default
\* that is not live when no pool at all is live.
C1_DefaultIsLive ==
    phase = "running" => (default_database = None \/ Has(pools, default_database))

\* C2: a remove never empties a live-pool mapping that held an id.  Stated
\* as the claim states it; two removes suspended in pool.close() have both
\* passed the last-database check.
C2_RemoveKeepsOne ==
    [][(returned'.op = "remove" /\ Len(pools) >= 1) => Len(pools') >= 1]_vars

\* C3: remove(id) called when id is the only live id returns
\* LastConnectionProtected at once, closes no pool, suspends nothing and
\* leaves pools, config, default_database and the file as they are.
C3_RemoveLastRejected ==
    [][\A id \in AllIds :
          (RemoveIssued(id) /\ KeySet(pools) = {id})
             => /\ returned' = Failure("remove", id, "LastConnectionProtected", "")
                /\ calls' = calls
                /\ RegistryUnchanged]_vars

C3_Witness ==
    /\ phase = "running"
    /\ returned.op = "remove" /\ returned.error = "LastConnectionProtected"
    /\ KeySet(pools) = {returned.id}

\* C4: a remove(id) that returns success, having found id to be the default,
\* leaves a default that is live when two or more ids are left and that is
\* the id left when one is; having found another default, it leaves it.
C4_DefaultAfterRemove ==
    [][\A c \in BagToSet(calls) :
          (c.pc = "remove_close" /\ Resumed(c) /\ returned'.op = "remove" /\ returned'.success)
             => IF default_database = c.database_id
                THEN /\ Len(pools') >= 2 => Has(pools', default_database')
                     /\ Len(pools') = 1 => default_database' = pools'[1][1]
                ELSE default_database' = default_database]_vars

C4_Witness ==
    /\ returned.op = "remove" /\ returned.success /\ returned.was_default
    /\ Len(pools) >= 2
    /\ Has(pools, default_database)

C4_WitnessOneLeft ==
    /\ returned.op = "remove" /\ returned.success /\ returned.was_default
    /\ Len(pools) = 1
    /\ default_database = pools[1][1]

\* C5: after an add(id) that returned success, get_pool(id) returns the open
\* pool registered under id until a remove of id steps in; after a
\* remove(id) that returned success, get_pool(id) returns no pool until an
\* add of id steps in.  In three parts: the return establishes it, every
\* step of another call keeps it, and get_pool returns what pools holds.
C5_AddThenGet_RemoveThenGet ==
    /\ [][\A id \in AllIds :
            /\ (returned'.op = "add" /\ returned'.id = id /\ returned'.success)
                  => LiveIn(pools', poolState', id)
            /\ (returned'.op = "remove" /\ returned'.id = id /\ returned'.success)
                  => ~Has(pools', id)]_vars
    /\ [][\A id \in AllIds :
            /\ (LiveIn(pools, poolState, id) /\ phase' = "running"
                   /\ ~StepOf("remove_close", id))
                  => LiveIn(pools', poolState', id)
            /\ (phase = "running" /\ ~Has(pools, id) /\ ~StepOf("add_create_pool", id))
                  => ~Has(pools', id)]_vars
    /\ [][\A id \in AllIds :
            (returned'.op = "get_pool" /\ returned'.id = id)
               => returned'.pool = IF Has(pools, id) THEN Get(pools, id) ELSE NoPool]_vars

\* an add has returned success and get_pool of its id gives an open pool
C5_Witness ==
    /\ returned.op = "add" /\ returned.success
    /\ GetPoolOf(pools, default_database, returned.id) # NoPool
    /\ poolState[GetPoolOf(pools, default_database, returned.id)] = "open"

\* a remove has returned success and get_pool of its id gives no pool
C5_WitnessRemoved ==
    /\ returned.op = "remove" /\ returned.success
    /\ GetPoolOf(pools, default_database, returned.id) = NoPool

\* C6: add with an id that is a key of pools returns DuplicateId at once,
\* suspends at no create_pool, creates no pool and leaves pools, config,
\* default_database and the file as they are.
C6_DuplicateRejected ==
    [][\A id \in AllIds :
          (AddIssued(id) /\ Has(pools, id))
             => /\ returned' = Failure("add", id, "DuplicateId", "")
                /\ calls' = calls
                /\ RegistryUnchanged]_vars

C6_Witness ==
    /\ phase = "running"
    /\ returned.op = "add" /\ returned.error = "DuplicateId"
    /\ Has(pools, returned.id)

\* C8 as stated: when create_pool fails inside add, the id is afterwards in
\* neither pools nor config, and default_database and the file are as before.
C8_FailedAddLeavesIdAbsent ==
    [][\A c \in BagToSet(calls) :
          (c.pc = "add_create_pool" /\ Resumed(c) /\ poolState' = poolState)
             => /\ ~returned'.success
                /\ ~Has(pools', c.database_id)
                /\ ~Has(config'.databases, c.database_id)
                /\ default_database' = default_database
                /\ file' = file]_vars

\* C8 as amended: when create_pool fails inside add, add returns a failure
\* with the cause, and neither of its steps changes pools, config,
\* default_database or the file.
C8_FailedAddChangesNothing ==
    /\ [][\A c \in BagToSet(calls) :
            (c.pc = "add_create_pool" /\ Resumed(c) /\ poolState' = poolState)
               => /\ returned' = Failure("add", c.database_id, "FailedToAdd", "ConnectError")
                  /\ RegistryUnchanged]_vars
    /\ [][\A id \in AllIds :
            (AddIssued(id) /\ calls' # calls) => RegistryUnchanged]_vars

\* create_pool has failed inside the add of an id that no one else added
C8_Witness ==
    /\ returned.op = "add" /\ returned.cause = "ConnectError" /\ ~returned.success
    /\ ~Has(pools, returned.id)
    /\ ~Has(config.databases, returned.id)

\* C9: when the save fails (the file does not hold the config afterwards),
\* an add that created its pool returns a failure with the id live and in
\* the config, and a remove that deleted its id (its pool.close() returned
\* and the id was still in pools) returns a failure with the id in neither.
C9_SaveFailureSurfaced ==
    [][\A c \in BagToSet(calls) :
          (Resumed(c) /\ file' # FileOf(config'))
             => /\ (c.pc = "add_create_pool" /\ Len(poolState') > Len(poolState))
                      => /\ returned'.op = "add" /\ ~returned'.success
                         /\ Has(pools', c.database_id)
                         /\ Has(config'.databases, c.database_id)
                /\ (c.pc = "remove_close" /\ pools' # pools)
                      => /\ returned'.op = "remove" /\ ~returned'.success
                         /\ ~Has(pools', c.database_id)
                         /\ ~Has(config'.databases, c.database_id)]_vars

\* an add has failed in its save: its id is live, the file lacks it
C9_Witness ==
    /\ returned.op = "add" /\ ~returned.success /\ returned.cause = "OSError"
    /\ Has(pools, returned.id) /\ Has(config.databases, returned.id)
    /\ file # FileOf(config)

\* a remove has failed in its save
C9_WitnessRemove ==
    /\ returned.op = "remove" /\ ~returned.success /\ returned.cause = "OSError"
    /\ ~Has(pools, returned.id) /\ ~Has(config.databases, returned.id)
    /\ file # FileOf(config)

\* C10: get_pool(id) returns the pool registered under id; with id omitted
\* or empty, the pool of default_database; and no pool when the id it
\* resolves to is not live or no default is set.  Stated as the claim states
\* it; get_pool resolves the empty string to itself, not to the default.
C10_GetPoolResolves ==
    returned.op = "get_pool"
       => LET resolved == IF returned.id = None \/ returned.id = << >>
                          THEN default_database ELSE returned.id
          IN  returned.pool = IF resolved # None /\ Has(pools, resolved)
                              THEN Get(pools, resolved) ELSE NoPool

\* the characters the spec allows in an id: [A-Za-z0-9_-]
AllowedChars == AsciiAlnumChars \cup {"_", "-"}
HasCharOutside(id) == \E i \in 1..Len(id) : id[i] \notin AllowedChars

\* C7: add with an id that has a character outside [A-Za-z0-9_-] returns
\* InvalidId and suspends at no create_pool.  Stated as the claim states it;
\* str.isalnum() accepts every Unicode letter and digit.
C7_InvalidIdRejected ==
    [][\A id \in IdInputs :
          (AddIssued(id) /\ HasCharOutside(id))
             => /\ returned' = Failure("add", id, "InvalidId", "")
                /\ calls' = calls]_vars

----------------------------------------------------------------------------
(* Claims on startup and on the persisted default *)

\* the step in which connect() completes
ConnectCompletes == phase \in {"init", "connecting"} /\ phase' = "running"

\* C11: when connect() completes, default_database is the default the config
\* states if that id is live; else a live id if one is live; else unset.
\* Stated as the claim states it; connect() replaces the stated default only
\* when one is stated, and only when some pool is live.
C11_StartupDefault ==
    [][ConnectCompletes
          => LET stated == config'.default_database
                 live == KeySet(pools')
             IN  IF stated \in live THEN default_database' = stated
                 ELSE IF live # {} THEN default_database' \in live
                 ELSE default_database' = None]_vars

----------------------------------------------------------------------------
(* connect() alone, on config files of every shape, its attempts returning *)

IdX == <<"x">>

\* the databases of a config file: none, one, two in either order, three
StartupDatabases ==
    { << >>,
      << <<IdA, FileSpec>> >>,
      << <<IdA, FileSpec>>, <<IdB, FileSpec>> >>,
      << <<IdB, FileSpec>>, <<IdA, FileSpec>> >>,
      << <<IdA, FileSpec>>, <<IdB, FileSpec>>, <<DefaultName, FileSpec>> >> }

\* no file, an unreadable file, and files whose stated default is unset, the
\* empty string, one of their ids, or an id they do not hold
StartupFiles ==
    {FileAbsent, FileUnreadable}
       \cup {FileOf(Cfg(dbs, d)) : dbs \in StartupDatabases, d \in {None, << >>, IdA, IdB, IdX}}

InitStartup ==
    /\ phase = "init"
    /\ cursor = 0
    /\ file \in StartupFiles
    /\ config = Cfg(<< >>, None)
    /\ pools = << >>
    /\ default_database = None
    /\ poolState = << >>
    /\ calls = EmptyBag
    /\ returned = NoResult

NextStartup ==
    \/ ConnectStart
    \/ \E ok \in BOOLEAN : ConnectNext(ok)

\* every create_pool of the loop returns or raises in the end
SpecStartup == InitStartup /\ [][NextStartup]_vars /\ WF_vars(NextStartup)

\* C12: connect() completes whichever attempts fail; an attempt that
\* succeeds adds its id and its pool to pools, one that fails leaves pools as
\* they are, and either way the loop goes on to the next id; so that at
\* completion pools holds one open pool for every attempt that succeeded.
C12_ConnectAllCompletes ==
    /\ [][phase = "connecting"
            => LET db_id == config.databases[cursor][1]
               IN  /\ IF Len(poolState') > Len(poolState)
                      THEN /\ ~Has(pools, db_id)
                           /\ pools' = Append(pools, <<db_id, Len(poolState')>>)
                           /\ poolState'[Len(poolState')] = "open"
                      ELSE pools' = pools
                   /\ IF cursor < Len(config.databases)
                      THEN phase' = "connecting" /\ cursor' = cursor + 1
                      ELSE phase' = "running"]_vars
    /\ [](phase = "running"
            => /\ Len(pools) = Len(poolState)
               /\ KeySet(pools) \subseteq KeySet(config.databases)
               /\ \A i \in 1..Len(pools) : poolState[pools[i][2]] = "open")
    /\ <>(phase = "running")

\* of three configured ids the second failed to connect, the others are live
C12_Witness ==
    /\ phase = "running"
    /\ Keys(config.databases) = <<IdA, IdB, DefaultName>>
    /\ Keys(pools) = <<IdA, DefaultName>>

----------------------------------------------------------------------------
(* Claims on concurrent adds *)

\* the pools that are open and registered under no id
OpenOutside(pls, st) ==
    {i \in 1..Len(st) : st[i] = "open" /\ \A j \in 1..Len(pls) : pls[j][2] # i}

\* C13: of two add calls of one id that both passed the duplicate check
\* before either registered its pool, the one that resumes second (it finds
\* the id registered) returns DuplicateId, leaves the registered pool in
\* place and leaves no open pool outside pools.  Stated as the claim states
\* it; add_database checks for the id only before `await create_pool`.
C13_ConcurrentAddsSerialized ==
    [][\A c \in BagToSet(calls) :
          (c.pc = "add_create_pool" /\ Resumed(c) /\ Has(pools, c.database_id)
             /\ Len(poolState') > Len(poolState))
             => /\ returned' = Failure("add", c.database_id, "DuplicateId", "")
                /\ pools' = pools
                /\ OpenOutside(pools', poolState') = {}]_vars

----------------------------------------------------------------------------
(* execute_query, list_tables, describe_table *)

QueryOps == {"execute_query", "list_tables", "describe_table"}

\* `database_id or db_context.default_database`
IdOrDefault(database_id, dflt) == IF Truthy(database_id) THEN database_id ELSE dflt

\* the dict returned when get_pool gives no pool: the message names
\* `database_id or 'default'` and get_available_databases()
Unavailable(database_id, pls) ==
    << <<"error", [kind |-> "NotAvailable",
                   database_id |-> IdOrDefault(database_id, DefaultName),
                   available |-> AvailableDatabases(pls)]>> >>

\* the arguments a handler echoes in its dict
QueryEcho(op) ==
    IF op = "execute_query" THEN << <<"query", "query">> >>
    ELSE IF op = "list_tables" THEN << <<"schema", "schema">> >>
    ELSE << <<"table_name", "table_name">>, <<"schema", "schema">> >>

\* the dict of the except branch
QueryFailed(op, database_id, dflt, cause) ==
    << <<"success", FALSE>>, <<"error", cause>> >> \o QueryEcho(op)
       \o << <<"database_id", IdOrDefault(database_id, dflt)>> >>

\* the rows a handler puts into its dict
QueryRows(op, fetches) ==
    IF op = "execute_query"
    THEN IF fetches THEN << <<"results", "rows">>, <<"row_count", "len">> >>
         ELSE << <<"message", "status">> >>
    ELSE IF op = "list_tables" THEN << <<"tables", "rows">>, <<"count", "len">> >>
    ELSE << <<"columns", "rows">>, <<"constraints", "rows">> >>

\* the dict of a handler that ran its statements: execute_query puts the
\* rows before the query, list_tables and describe_table after the schema
QuerySucceeded(op, fetches, database_id, dflt) ==
    << <<"success", TRUE>> >>
       \o (IF op = "execute_query"
           THEN QueryRows(op, fetches) \o QueryEcho(op)
           ELSE QueryEcho(op) \o QueryRows(op, fetches))
       \o << <<"database_id", IdOrDefault(database_id, dflt)>> >>

\* what a query handler returned: its dict, with the operation and the
\* database_id of the call
QueryResult(op, id, dict) == [op |-> op, id |-> id, dict |-> dict]

\* the key get_pool looks up in pools
ResolvedId(database_id, dflt) == IF database_id = None THEN dflt ELSE database_id

\* a query handler suspended at an await: at pool.acquire() ("acquire"), at
\* its n-th conn.fetch / conn.execute ("statement", n), or at the release
\* of its connection on leaving the `async with` ("release").  pending is
\* what the handler leaves the `async with` with: the dict of its return
\* statement, or the exception a statement raised.  resolved is no local of
\* the handler: it notes the id under which get_pool found pool.
QueryCallOf(op, fetches, database_id, pool, pc, n, resolved) ==
    [pc |-> pc, op |-> op, fetches |-> fetches, database_id |-> database_id,
     pool |-> pool, n |-> n, pending |-> << >>, resolved |-> resolved]

\* an exception on its way out of the `async with`
Raised(cause) == << <<"raised", cause>> >>

\* the statements a handler dispatches
StatementsOf(op) == IF op = "describe_table" THEN 2 ELSE 1

\* from the call to `async with pool.acquire()`; fetches is the outcome of
\* query.strip().upper().startswith(('SELECT', 'WITH'))
QueryCall(op, fetches, database_id) ==
    /\ phase = "running"
    /\ LET pool == GetPoolOf(pools, default_database, database_id)
       IN  IF pool = NoPool
           THEN /\ returned' = QueryResult(op, database_id, Unavailable(database_id, pools))
                /\ UNCHANGED calls
           ELSE /\ BagCardinality(calls) < NumCalls
                /\ calls' = Suspend(QueryCallOf(op, fetches, database_id, pool, "acquire", 0,
                                                ResolvedId(database_id, default_database)))
                /\ returned' = NoResult
    /\ UNCHANGED <<phase, cursor, file, config, pools, default_database, poolState>>

\* pool.acquire() returned a connection (the first statement is dispatched)
\* or raised (the except branch)
QueryAcquired(c, ok) ==
    /\ phase = "running"
    /\ BagIn(c, calls)
    /\ c.pc = "acquire"
    /\ IF ok
       THEN /\ calls' = Resume(c) (+) SetToBag({[c EXCEPT !.pc = "statement", !.n = 1]})
            /\ returned' = NoResult
       ELSE /\ calls' = Resume(c)
            /\ returned' = QueryResult(c.op, c.database_id,
                              QueryFailed(c.op, c.database_id, default_database, "AcquireError"))
    /\ UNCHANGED <<phase, cursor, file, config, pools, default_database, poolState>>

\* a statement returned (the next one is dispatched, or the return statement
\* builds the dict) or raised; after the last statement and after an
\* exception the handler leaves the `async with` and awaits the release
QueryStatement(c, ok) ==
    /\ phase = "running"
    /\ BagIn(c, calls)
    /\ c.pc = "statement"
    /\ LET next ==
              IF ~ok
              THEN [c EXCEPT !.pc = "release", !.pending = Raised("StatementError")]
              ELSE IF c.n < StatementsOf(c.op)
              THEN [c EXCEPT !.n = c.n + 1]
              ELSE [c EXCEPT !.pc = "release",
                             !.pending = QuerySucceeded(c.op, c.fetches, c.database_id,
                                                        default_database)]
       IN  calls' = Resume(c) (+) SetToBag({next})
    /\ returned' = NoResult
    /\ UNCHANGED <<phase, cursor, file, config, pools, default_database, poolState>>

\* the release returned: the handler returns its dict, or the except branch
\* builds the dict of the exception a statement raised; the release raised:
\* the except branch builds the dict of that exception
QueryReleased(c, ok) ==
    /\ phase = "running"
    /\ BagIn(c, calls)
    /\ c.pc = "release"
    /\ calls' = Resume(c)
    /\ returned' = QueryResult(c.op, c.database_id,
                      IF ~ok
                      THEN QueryFailed(c.op, c.database_id, default_database, "ReleaseError")
                      ELSE IF c.pending[1][1] = "raised"
                      THEN QueryFailed(c.op, c.database_id, default_database, c.pending[1][2])
                      ELSE c.pending)
    /\ UNCHANGED <<phase, cursor, file, config, pools, default_database, poolState>>

\* database_id arguments of the query handlers: omitted, the empty string,
\* ids of the config files, an id of none
QueryIds == {None, << >>, IdA, IdB, IdX}

\* the handlers and whether they fetch: only execute_query has the choice
QueryKinds ==
    {<<"execute_query", TRUE>>, <<"execute_query", FALSE>>,
     <<"list_tables", TRUE>>, <<"describe_table", TRUE>>}

NextQuery ==
    \/ ConnectStart
    \/ \E ok \in BOOLEAN : ConnectNext(ok)
    \/ \E k \in QueryKinds, id \in QueryIds : QueryCall(k[1], k[2], id)
    \/ \E c \in BagToSet(calls), ok \in BOOLEAN : QueryAcquired(c, ok)
    \/ \E c \in BagToSet(calls), ok \in BOOLEAN : QueryStatement(c, ok)
    \/ \E c \in BagToSet(calls), ok \in BOOLEAN : QueryReleased(c, ok)

SpecQuery == Init /\ [][NextQuery]_vars

\* C14: every return of execute_query, list_tables and describe_table is a
\* dict with a key "success" that is True or False; when get_pool gives no
\* pool the dict names the requested id and the live ids, and the handler
\* returns at once, suspended at no statement.  Stated as the claim states
\* it; the dict of the unavailable path has the key "error" alone.
C14_TaggedResult ==
    [][returned'.op \in QueryOps
          => /\ Has(returned'.dict, "success")
             /\ Get(returned'.dict, "success") \in BOOLEAN
             /\ GetPoolOf(pools, default_database, returned'.id) = NoPool
                   => /\ Has(returned'.dict, "error")
                      /\ Truthy(returned'.id)
                            => Get(returned'.dict, "error").database_id = returned'.id
                      /\ Get(returned'.dict, "error").available = Keys(pools)
                      /\ calls' = calls]_vars

----------------------------------------------------------------------------
(* The registry over restarts of the server *)

\* the server process is started again: a new DatabaseContext, the config
\* file as the run before left it
Restart ==
    /\ phase = "stopped"
    /\ phase' = "init"
    /\ cursor' = 0
    /\ config' = Cfg(<< >>, None)
    /\ pools' = << >>
    /\ default_database' = None
    /\ poolState' = << >>
    /\ calls' = EmptyBag
    /\ returned' = NoResult
    /\ UNCHANGED file

\* the lifespan, add_database and remove_database of the ids a and b, and
\* the restart
NextRestart ==
    \/ ConnectStart
    \/ \E ok \in BOOLEAN : ConnectNext(ok)
    \/ \E id \in {IdA, IdB}, sd \in BOOLEAN : AddCall(id, EnvConn, sd, None, None, None)
    \/ \E c \in BagToSet(calls) : AddConnectFailed(c)
    \/ \E c \in BagToSet(calls), o \in SaveOutcomes : AddConnected(c, o)
    \/ \E id \in {IdA, IdB} : RemoveCall(id)
    \/ \E c \in BagToSet(calls), o \in SaveOutcomes : RemoveClosed(c, o)
    \/ \E c \in BagToSet(calls) : RemoveCloseFailed(c)
    \/ Disconnect
    \/ \E ok \in BOOLEAN : DisconnectClosed(ok)
    \/ Restart

SpecRestart == Init /\ [][NextRestart]_vars

\* C15: an add that returns success has written its spec under its id into
\* the file, a remove that returns success has written a file without its
\* id; a restart keeps the file, loads it, and, when every connection
\* succeeds, has exactly the ids of the file live, in the file's order.
C15_PersistsAcrossRestart ==
    /\ [][\A c \in BagToSet(calls) :
            (Resumed(c) /\ returned'.success)
               => /\ file'.state = "ok"
                  /\ c.pc = "add_create_pool"
                        => /\ Has(file'.content.databases, c.database_id)
                           /\ Get(file'.content.databases, c.database_id)
                                 = DbSpec(c.conn, c.project)
                  /\ c.pc = "remove_close"
                        => ~Has(file'.content.databases, c.database_id)]_vars
    /\ [][phase = "stopped" => file' = file]_vars
    /\ [][ConnectCompletes
            => /\ config' = LoadConfig(file)
               /\ Len(poolState') = Len(config'.databases)
                     => Keys(pools') = Keys(LoadConfig(file).databases)]_vars

\* a restart is connecting to the databases of a file that an add wrote:
\* the id it added is live again
C15_Witness ==
    /\ phase = "connecting"
    /\ \E id \in {IdA, IdB} :
          /\ Has(pools, id)
          /\ Get(file.content.databases, id) = DbSpec(EnvConn, NoProject)

\* a restart is connecting to the databases of a file that remove(a) wrote:
\* of the file that held a and b, only b is left
C15_WitnessRemoved ==
    /\ phase = "connecting"
    /\ file.content.databases = << <<IdB, FileSpec>> >>
    /\ config = file.content

----------------------------------------------------------------------------
(* disconnect() called a second time *)

\* disconnect() once more after the lifespan's own call: the same loop over
\* pools
DisconnectAgain ==
    /\ phase = "stopped"
    /\ DisconnectCalled("stopping_again", "stopped_again")

\* pool.close() returned or raised inside the second disconnect()
DisconnectAgainClosed(ok) ==
    /\ phase = "stopping_again"
    /\ DisconnectResumed("stopping_again", "stopped_again", ok)

NextShutdown ==
    \/ Next
    \/ DisconnectAgain
    \/ \E ok \in BOOLEAN : DisconnectAgainClosed(ok)

SpecShutdown == Init /\ [][NextShutdown]_vars

\* C16: once disconnect() has returned, every pool of the live-pool mapping
\* is closed; and a second disconnect() changes no pool's state and nothing
\* else of the registry.  Stated as the claim states it; a pool.close() that
\* raises ends the loop of disconnect() with the pools after it still open.
C16_DisconnectAll ==
    /\ [](phase \in {"stopped", "stopping_again", "stopped_again"}
            => \A i \in 1..Len(pools) : poolState[pools[i][2]] = "closed")
    /\ [][(phase \in {"stopped", "stopping_again"}) => RegistryUnchanged]_vars
    /\ [][((phase \in {"running", "stopping"}) /\ phase' \in {"stopping", "stopped"})
            => /\ pools' = pools
               /\ \A p \in 1..Len(poolState) :
                     poolState[p] = "closed" => poolState'[p] = "closed"]_vars

----------------------------------------------------------------------------
(* find_databases_by_project *)

\* config.get("project") of a config entry: None when the entry has no
\* such key (an entry of the environment or of a hand-written file)
ProjectInfo(spec) == IF "project" \in DOMAIN spec THEN spec.project ELSE NoProject

ProjectMatches_Both(project_info, project_name, project_tag) ==
    IF project_info # NoProject
    THEN \/ /\ Truthy(project_name) /\ project_info[1].name = project_name
            /\ Truthy(project_tag)
            /\ \E i \in 1..Len(project_info[1].tags) : project_info[1].tags[i] = project_tag
         \/ ~Truthy(project_name) /\ ~Truthy(project_tag)
    ELSE ~Truthy(project_name) /\ ~Truthy(project_tag)

\* the value of `matches` after the criteria were checked
ProjectMatches(project_info, project_name, project_tag) ==
    IF project_info # NoProject
    THEN \/ Truthy(project_name) /\ project_info[1].name = project_name
         \/ /\ Truthy(project_tag)
            /\ \E i \in 1..Len(project_info[1].tags) : project_info[1].tags[i] = project_tag
         \/ ~Truthy(project_name) /\ ~Truthy(project_tag)
    ELSE ~Truthy(project_name) /\ ~Truthy(project_tag)

\* db_info of one database
DbInfo(db_id, spec, dflt) ==
    [id |-> db_id, host |-> spec.host, port |-> spec.port, database |-> spec.database,
     user |-> spec.user, is_default |-> db_id = dflt, project |-> ProjectInfo(spec)]

\* matching_databases: the loop over get_available_databases()
RECURSIVE MatchingDatabases(_, _, _, _, _)
MatchingDatabases(ids, cfg, dflt, project_name, project_tag) ==
    IF ids = << >> THEN << >>
    ELSE LET db_id == Head(ids)
             rest == MatchingDatabases(Tail(ids), cfg, dflt, project_name, project_tag)
         IN  IF Has(cfg.databases, db_id)
                  /\ ProjectMatches(ProjectInfo(Get(cfg.databases, db_id)),
                                    project_name, project_tag)
             THEN <<DbInfo(db_id, Get(cfg.databases, db_id), dflt)>> \o rest
             ELSE rest

\* find_databases_by_project: no await, one step
Find(project_name, project_tag) ==
    /\ phase = "running"
    /\ LET found == MatchingDatabases(AvailableDatabases(pools), config, default_database,
                                      project_name, project_tag)
       IN  returned' = QueryResult("find", None,
                          << <<"success", TRUE>>, <<"databases", found>>,
                             <<"count", Len(found)>>,
                             <<"search_criteria", [project_name |-> project_name,
                                                   project_tag |-> project_tag]>> >>)
    /\ UNCHANGED <<phase, cursor, file, config, pools, default_database, poolState, calls>>

\* project names and tags
ProjP == <<"p">>
ProjQ == <<"q">>
TagX == <<"x">>
TagY == <<"y">>
TagZ == <<"z">>
\* project_tags "x,y"
TagsXY == <<"x", ",", "y">>

\* a config file with a database without project info, one of project p with
\* tags x, y, and one of project q without tags; and no config file
ProjectFiles ==
    { FileAbsent,
      FileOf(Cfg(<< <<IdA, FileSpec>>,
                    <<IdB, DbSpec(EnvConn, << [name |-> ProjP, description |-> None,
                                               tags |-> <<TagX, TagY>>] >>)>>,
                    <<IdX, DbSpec(EnvConn, << [name |-> ProjQ, description |-> None,
                                               tags |-> << >>] >>)>> >>, IdA)) }

InitProjects ==
    /\ phase = "init"
    /\ cursor = 0
    /\ file \in ProjectFiles
    /\ config = Cfg(<< >>, None)
    /\ pools = << >>
    /\ default_database = None
    /\ poolState = << >>
    /\ calls = EmptyBag
    /\ returned = NoResult

NextProjects ==
    \/ ConnectStart
    \/ \E ok \in BOOLEAN : ConnectNext(ok)
    \/ \E pn \in {None, << >>, ProjP}, pt \in {None, TagsXY} :
          AddCall(IdB, EnvConn, FALSE, pn, None, pt)
    \/ \E c \in BagToSet(calls) : AddConnectFailed(c)
    \/ \E c \in BagToSet(calls), o \in SaveOutcomes : AddConnected(c, o)
    \/ \E pn \in {None, << >>, ProjP, ProjQ}, pt \in {None, << >>, TagX, TagY, TagZ} :
          Find(pn, pt)

SpecProjects == InitProjects /\ [][NextProjects]_vars

\* the claim's criteria, on a spec of the config
HasProjectInfo(spec) == "project" \in DOMAIN spec /\ spec.project # NoProject
ClaimedMatch(spec, project_name, project_tag) ==
    IF ~Truthy(project_name) /\ ~Truthy(project_tag) THEN TRUE
    ELSE /\ HasProjectInfo(spec)
         /\ \/ Truthy(project_name) /\ spec.project[1].name = project_name
            \/ Truthy(project_tag)
                  /\ project_tag \in {spec.project[1].tags[i] : i \in 1..Len(spec.project[1].tags)}

\* C17: find_databases_by_project returns, in the order of pools, exactly the
\* live ids whose spec meets the criteria: every live id when neither a name
\* nor a tag is given; else those with project info whose name is the name
\* given or whose tags hold the tag given.
C17_FindMatches ==
    [][returned'.op = "find"
          => LET crit == Get(returned'.dict, "search_criteria")
                 found == Get(returned'.dict, "databases")
                 expected == SelectSeq(Keys(pools),
                                LAMBDA id : ClaimedMatch(Get(config.databases, id),
                                                         crit.project_name, crit.project_tag))
             IN  /\ Get(returned'.dict, "success") = TRUE
                 /\ [i \in 1..Len(found) |-> found[i].id] = expected
                 /\ Get(returned'.dict, "count") = Len(expected)
                 /\ \A i \in 1..Len(found) :
                       found[i] = DbInfo(found[i].id, Get(config.databases, found[i].id),
                                         default_database)]_vars

\* a find by tag y alone returned the one database whose tags hold y, and
\* not the other live database
C17_Witness ==
    /\ returned.op = "find"
    /\ Get(returned.dict, "search_criteria") = [project_name |-> None, project_tag |-> TagY]
    /\ Len(Get(returned.dict, "databases")) = 1
    /\ Len(pools) >= 2

----------------------------------------------------------------------------
(* Claims on the fallback of _load_config and on the config in memory *)

\* C18: with no config file, or one that cannot be read or parsed, the
\* config loaded has the one entry "default", built from the environment's
\* settings, and states "default" as the default; when that connection
\* succeeds, "default" is the one live id and the default.
C18_EnvironmentFallback ==
    /\ []((phase \in {"connecting", "running"} /\ file.state # "ok")
            => /\ Keys(config.databases) = <<DefaultName>>
               /\ Get(config.databases, DefaultName)
                     = [host |-> "h", port |-> 5432, database |-> "d", user |-> "u",
                        password |-> "p"]
               /\ config.default_database = DefaultName)
    /\ []((phase = "running" /\ file.state # "ok" /\ Len(poolState) = 1)
            => /\ Keys(pools) = <<DefaultName>>
               /\ poolState[Get(pools, DefaultName)] = "open"
               /\ default_database = DefaultName)

\* started on an unreadable file, "default" is live and the default
C18_Witness ==
    /\ phase = "running"
    /\ file = FileUnreadable
    /\ Keys(pools) = <<DefaultName>>
    /\ default_database = DefaultName

\* the same with no file
C18_WitnessAbsent ==
    /\ phase = "running"
    /\ file = FileAbsent
    /\ Keys(pools) = <<DefaultName>>
    /\ default_database = DefaultName

\* C19: every id of pools has an entry in config's databases, in every state
\* reached by connect() and any interleaving of add and remove.
C19_LiveIdsHaveSpecs ==
    KeySet(pools) \subseteq KeySet(config.databases)

\* an add and a remove have both completed, and a call is suspended
C19_Witness ==
    /\ phase = "running"
    /\ returned.op = "remove" /\ returned.success
    /\ calls # EmptyBag
    /\ \E id \in KeySet(pools) : Get(config.databases, id) = DbSpec(EnvConn, NoProject)

\* C20: after an add or a remove that returned success, the file's
\* default_database is the default_database in memory.  Stated as the claim
\* states it; connect() replaces an unavailable stated default in
\* self.default_database only, not in self.config, and the save writes
\* self.config.
C20_SavedDefaultIsDefault ==
    [][(returned'.op \in {"add", "remove"} /\ returned'.success)
          => /\ file'.state = "ok"
             /\ file'.content.default_database = default_database']_vars

----------------------------------------------------------------------------
(* Queries while the registry changes *)

\* query calls that leave the database to the default, with adds that set
\* the default and removes
NextSnapshot ==
    \/ ConnectStart
    \/ \E ok \in BOOLEAN : ConnectNext(ok)
    \/ \E k \in QueryKinds : QueryCall(k[1], k[2], None)
    \/ \E c \in BagToSet(calls), ok \in BOOLEAN : QueryAcquired(c, ok)
    \/ \E c \in BagToSet(calls), ok \in BOOLEAN : QueryStatement(c, ok)
    \/ \E c \in BagToSet(calls), ok \in BOOLEAN : QueryReleased(c, ok)
    \/ AddCall(IdB, EnvConn, TRUE, None, None, None)
    \/ \E c \in BagToSet(calls) : AddConnectFailed(c)
    \/ \E c \in BagToSet(calls), o \in SaveOutcomes : AddConnected(c, o)
    \/ \E id \in {IdA, IdB} : RemoveCall(id)
    \/ \E c \in BagToSet(calls), o \in SaveOutcomes : RemoveClosed(c, o)
    \/ \E c \in BagToSet(calls) : RemoveCloseFailed(c)

SpecSnapshot == Init /\ [][NextSnapshot]_vars

\* C21: the database_id in the dict of a query handler that got a pool is
\* the id under which get_pool found that pool, whatever add or remove ran
\* while the handler was suspended.  Stated as the claim states it; the
\* handlers evaluate `database_id or db_context.default_database` when they
\* build the dict, after their awaits.
C21_ReportedIdIsDispatchedId ==
    [][\A c \in BagToSet(calls) :
          (c.pc \in {"acquire", "release"} /\ Resumed(c) /\ returned'.op \in QueryOps)
             => Get(returned'.dict, "database_id") = c.resolved]_vars

----------------------------------------------------------------------------
(* Claims on ids, on the pools of the mapping and on tags *)

\* C22: add of an id that is not in pools, has a character and has only
\* characters of [A-Za-z0-9_-] is not rejected as InvalidId: the call is
\* suspended at create_pool.  Stated as the claim states it; the id check
\* removes "_" and "-" and asks isalnum() of the rest, which is false for
\* the empty string.
C22_ValidIdAccepted ==
    [][\A id \in IdInputs :
          (AddIssued(id) /\ ~Has(pools, id) /\ Len(id) > 0 /\ ~HasCharOutside(id))
             => /\ returned' = NoResult
                /\ \E c \in BagToSet(calls') :
                      /\ c.pc = "add_create_pool" /\ c.database_id = id
                      /\ calls' = Suspend(c)]_vars

\* C23: no id of pools maps to a pool whose close has been started or has
\* completed, while the server serves calls.  Stated as the claim states it;
\* remove_database awaits pool.close() before it deletes the id.
C23_MappedPoolsOpen ==
    phase = "running" => \A i \in 1..Len(pools) : poolState[pools[i][2]] = "open"

\* the tags of project_tags
TagsOf(project_tags) ==
    LET tags == Split(project_tags, << >>) IN {tags[i] : i \in 1..Len(tags)}

\* the ids find_databases_by_project(project_tag = t) returns
FoundByTag(pls, cfg, dflt, t) ==
    LET found == MatchingDatabases(AvailableDatabases(pls), cfg, dflt, None, t)
    IN  {found[i].id : i \in 1..Len(found)}

\* C24: once an add called with project_tags has returned success,
\* find_databases_by_project returns its id for every one of the tags,
\* whatever project_name the add was called with.  Stated as the claim
\* states it; add_database stores no project info, tags included, unless
\* project_name is given.
C24_TagsKept ==
    [][\A c \in BagToSet(calls) :
          (c.pc = "add_create_pool" /\ Resumed(c) /\ returned'.success
             /\ Truthy(c.project_tags))
             => \A t \in TagsOf(c.project_tags) :
                   c.database_id \in FoundByTag(pools', config', default_database', t)]_vars

====
